---- MODULE Spec2Model ----
(***************************************************************************)
(* Position-sequence (martingale ladder) engine of SignalA.                *)
(*                                                                         *)
(* The persistent tables position_sequences / bot_signals / signal_results *)
(* are the state; DatabaseManager's operations, MartingaleManager's        *)
(* evaluators and SignalTracker's polling tick are the actions.            *)
(*                                                                         *)
(* Python floats are IEEE-754 doubles, computed bit for bit: a double is    *)
(* <<sign, e, m1, m2, m3, m4>>, the value (-1)^sign * M * 2^e of its 53-bit  *)
(* mantissa M held in four 14-bit limbs; every operation rounds to nearest, *)
(* ties to even. A NULL column / Python None is the pair <<0, 0>>.          *)
(* Timestamps are minutes since start; a NULL timestamp is <<>> and a set  *)
(* one is <<t>>.                                                           *)
(***************************************************************************)
EXTENDS Integers, Sequences, FiniteSets, TLC

VARIABLES
    sequences,   \* table position_sequences: its rows, the row at index i has id i
    signals,     \* table bot_signals: its rows, each with its sequence_id and its result
    committed,   \* history: the (price, margin) of create and of every successful advance
    now,         \* datetime.utcnow(), in minutes
    pc,          \* start_tracking coroutine: "off" | "idle" (between ticks) | "fetched"
    snapshot,    \* the fetched sequences the running tick has not gone through yet
    lastOp,      \* the last operation executed and how it ended
    manager,     \* the MartingaleManager main.py constructed (its configuration)
    is_running   \* SignalTracker.is_running

vars == <<sequences, signals, committed, now, pc, snapshot, lastOp, manager, is_running>>

----------------------------------------------------------------------------
(* Bounds of the model *)

\* max_steps handed to create_sequence by the upstream signal
MaxStepsCfg == 2
\* advances are explored up to one step beyond max_steps
StepCap == MaxStepsCfg + 1
\* the clock advances in jumps of TimeJump minutes up to MaxNow
TimeJump == 15
MaxNow == 30
\* SignalResult rows one signal gets in the model
MaxResults == 2
\* symbols monitor_markets scans when several sequences are tracked: each can
\* open one sequence
MaxSymbols == 2

----------------------------------------------------------------------------
(* Python float arithmetic (IEEE-754 binary64, round to nearest even) *)

None == <<0, 0>>


\* A double is <<sign, e, m1, m2, m3, m4>>: (-1)^sign * M * 2^e with the 53-bit
\* mantissa M = m1 + m2 * 2^14 + m3 * 2^28 + m4 * 2^42 (2^52 <= M < 2^53);
\* 0.0 is Zero. Numbers of several limbs are tuples of 14-bit limbs, least
\* significant first.
Base == 16384
Zero == <<0, 0, 0, 0, 0, 0>>
PowersOf2 == <<1, 2, 4, 8, 16, 32, 64, 128, 256, 512, 1024, 2048, 4096, 8192, 16384>>
Pow2(k) == PowersOf2[k + 1]

\* number of bits of a limb
LimbLen(n) ==
    IF n < 128
    THEN IF n < 8 THEN (IF n < 2 THEN n ELSE IF n < 4 THEN 2 ELSE 3)
         ELSE IF n < 32 THEN (IF n < 16 THEN 4 ELSE 5)
         ELSE IF n < 64 THEN 6 ELSE 7
    ELSE IF n < 2048
         THEN IF n < 512 THEN (IF n < 256 THEN 8 ELSE 9)
              ELSE IF n < 1024 THEN 10 ELSE 11
         ELSE IF n < 8192 THEN (IF n < 4096 THEN 12 ELSE 13) ELSE 14

\* limb i of a limb tuple, 0 outside it
LimbAt(n, i) == IF i < 1 \/ i > Len(n) THEN 0 ELSE n[i]
\* limb i of n * 2^(14 w + b) and of floor(n / 2^(14 w + b)), 0 <= b < 14
ShlLimb(n, w, b, i) ==
    ((LimbAt(n, i - w) * Pow2(b)) % Base) + (LimbAt(n, i - w - 1) \div Pow2(14 - b))
ShrLimb(n, w, b, i) ==
    (LimbAt(n, i + w) \div Pow2(b)) + ((LimbAt(n, i + w + 1) % Pow2(b)) * Pow2(14 - b))
\* the low four limbs of n * 2^(14 w + b) and of floor(n / 2^(14 w + b))
ShlLimbs(n, w, b) ==
    <<ShlLimb(n, w, b, 1), ShlLimb(n, w, b, 2), ShlLimb(n, w, b, 3), ShlLimb(n, w, b, 4)>>
ShrLimbs(n, w, b) ==
    <<ShrLimb(n, w, b, 1), ShrLimb(n, w, b, 2), ShrLimb(n, w, b, 3), ShrLimb(n, w, b, 4)>>
\* the low four limbs of n * 2^k and of floor(n / 2^k)
ShiftLeft(n, k) == ShlLimbs(n, k \div 14, k % 14)
ShiftRight(n, k) == ShrLimbs(n, k \div 14, k % 14)
\* bit k (from 0) of n is set; some bit below bit k of n is set
BitSet(n, k) == (LimbAt(n, k \div 14 + 1) \div Pow2(k % 14)) % 2 = 1
LowBits(n, k) ==
    \/ \E i \in 1..Len(n) : i <= k \div 14 /\ n[i] # 0
    \/ LimbAt(n, k \div 14 + 1) % Pow2(k % 14) # 0

BitLen5(n) ==
    IF n[5] # 0 THEN 56 + LimbLen(n[5])
    ELSE IF n[4] # 0 THEN 42 + LimbLen(n[4])
    ELSE IF n[3] # 0 THEN 28 + LimbLen(n[3])
    ELSE IF n[2] # 0 THEN 14 + LimbLen(n[2])
    ELSE LimbLen(n[1])

\* a 4-limb number plus one: <<its bit 53, the low four limbs>>
Increment(q) ==
    IF q[1] < Base - 1 THEN <<0, q[1] + 1, q[2], q[3], q[4]>>
    ELSE IF q[2] < Base - 1 THEN <<0, 0, q[2] + 1, q[3], q[4]>>
    ELSE IF q[3] < Base - 1 THEN <<0, 0, 0, q[3] + 1, q[4]>>
    ELSE IF q[4] < 2047 THEN <<0, 0, 0, 0, q[4] + 1>>
    ELSE <<1, 0, 0, 0, 1024>>

\* the double of sign s, exponent e and the 53-bit mantissa q
Packed(s, e, q) == <<s, e, q[1], q[2], q[3], q[4]>>
\* ... and of a mantissa r that carries its bit 53 in front
Carried(s, e, r) == <<s, e + r[1], r[2], r[3], r[4], r[5]>>
\* the 53-bit q, rounded up when asked, as a double with exponent e
RoundUp(s, e, q, up) ==
    IF up THEN Carried(s, e, Increment(q)) ELSE Packed(s, e, q)
\* n * 2^e with its low drop bits rounded away (exactly shifted for drop <= 0)
RoundAt(s, e, n, sticky, drop) ==
    IF drop <= 0 THEN Packed(s, e + drop, ShiftLeft(n, -drop))
    ELSE RoundUp(s, e + drop, ShiftRight(n, drop),
                 BitSet(n, drop - 1)
                 /\ (sticky \/ LowBits(n, drop - 1) \/ BitSet(n, drop)))
\* round to nearest, ties to even: the double nearest to (-1)^s * n * 2^e, n a
\* nonzero 5-limb number followed by a nonzero tail if sticky
RoundPack(s, e, n, sticky) == RoundAt(s, e, n, sticky, BitLen5(n) - 53)

\* the limbs of a natural number below 2^31
Limbs(a) == <<a % Base, (a \div Base) % Base, a \div (Base * Base), 0, 0>>
\* float(n) of an int n
R(n) ==
    IF n = 0 THEN Zero
    ELSE RoundPack(IF n < 0 THEN 1 ELSE 0, 0, Limbs(IF n < 0 THEN -n ELSE n), FALSE)

RIsZero(x) == x = Zero
RNeg(x) == IF x = Zero THEN x ELSE <<1 - x[1], x[2], x[3], x[4], x[5], x[6]>>

\* |x| < |y| for nonzero x, y
MagLt(x, y) ==
    IF x[2] # y[2] THEN x[2] < y[2]
    ELSE IF x[6] # y[6] THEN x[6] < y[6]
    ELSE IF x[5] # y[5] THEN x[5] < y[5]
    ELSE IF x[4] # y[4] THEN x[4] < y[4]
    ELSE x[3] < y[3]

RLt(x, y) ==
    IF x = y THEN FALSE
    ELSE IF x = Zero THEN y[1] = 0
    ELSE IF y = Zero THEN x[1] = 1
    ELSE IF x[1] # y[1] THEN x[1] = 1
    ELSE IF x[1] = 0 THEN MagLt(x, y) ELSE MagLt(y, x)
RLe(x, y) == x = y \/ RLt(x, y)
RGe(x, y) == RLe(y, x)

\* the mantissa times 8 (three extra bits for rounding), 5 limbs
Times8(x) ==
    <<(x[3] * 8) % Base, ((x[4] * 8) % Base) + (x[3] \div 2048),
      ((x[5] * 8) % Base) + (x[4] \div 2048), (x[6] * 8) + (x[5] \div 2048), 0>>

\* q with its last bit set if bits were lost
Sticky(q, lost) ==
    <<IF lost /\ q[1] % 2 = 0 THEN q[1] + 1 ELSE q[1], q[2], q[3], q[4]>>
\* m / 2^d cut to an integer, its last bit set if bits were lost
Aligned(m, d) ==
    IF d >= 56 THEN <<1, 0, 0, 0>> ELSE Sticky(ShiftRight(m, d), LowBits(m, d))
\* a + g * y for g = 1, and for g = -1 with a >= y, 5 limbs
Combine(a, y, g) ==
    LET t1 == a[1] + g * y[1]
        t2 == a[2] + g * y[2] + (t1 \div Base)
        t3 == a[3] + g * y[3] + (t2 \div Base)
        t4 == a[4] + g * y[4] + (t3 \div Base)
    IN  <<t1 % Base, t2 % Base, t3 % Base, t4 % Base, t4 \div Base>>
PackSum(s, e, sum) ==
    IF sum = <<0, 0, 0, 0, 0>> THEN Zero ELSE RoundPack(s, e, sum, FALSE)
\* x + y for nonzero x, y with |x| >= |y|
AddOrdered(x, y) ==
    PackSum(x[1], x[2] - 3,
            Combine(Times8(x), Aligned(Times8(y), x[2] - y[2]),
                    IF x[1] = y[1] THEN 1 ELSE -1))
RAdd(x, y) ==
    IF x = Zero THEN y
    ELSE IF y = Zero THEN x
    ELSE IF MagLt(x, y) THEN AddOrdered(y, x) ELSE AddOrdered(x, y)
RSub(x, y) == RAdd(x, RNeg(y))

\* the product of two mantissas, 8 limbs
Product(x, y) ==
    LET t1 == x[3] * y[3]
        t2 == x[3] * y[4] + x[4] * y[3] + (t1 \div Base)
        t3 == x[3] * y[5] + x[4] * y[4] + x[5] * y[3] + (t2 \div Base)
        t4 == x[3] * y[6] + x[4] * y[5] + x[5] * y[4] + x[6] * y[3] + (t3 \div Base)
        t5 == x[4] * y[6] + x[5] * y[5] + x[6] * y[4] + (t4 \div Base)
        t6 == x[5] * y[6] + x[6] * y[5] + (t5 \div Base)
        t7 == x[6] * y[6] + (t6 \div Base)
    IN  <<t1 % Base, t2 % Base, t3 % Base, t4 % Base, t5 % Base, t6 % Base,
          t7 % Base, t7 \div Base>>
PackProduct(s, e, p) ==
    RoundPack(s, e + 42, <<p[4], p[5], p[6], p[7], p[8]>>,
              p[1] # 0 \/ p[2] # 0 \/ p[3] # 0)
RMul(x, y) ==
    IF x = Zero \/ y = Zero THEN Zero
    ELSE PackProduct(IF x[1] = y[1] THEN 0 ELSE 1, x[2] + y[2], Product(x, y))

\* a < b for 5-limb numbers
Less5(a, b) ==
    IF a[5] # b[5] THEN a[5] < b[5]
    ELSE IF a[4] # b[4] THEN a[4] < b[4]
    ELSE IF a[3] # b[3] THEN a[3] < b[3]
    ELSE IF a[2] # b[2] THEN a[2] < b[2]
    ELSE a[1] < b[1]
\* v * k for a number v of four limbs and a limb k, 5 limbs
Times(v, k) ==
    LET t1 == v[1] * k
        t2 == v[2] * k + (t1 \div Base)
        t3 == v[3] * k + (t2 \div Base)
        t4 == v[4] * k + (t3 \div Base)
    IN  <<t1 % Base, t2 % Base, t3 % Base, t4 % Base, t4 \div Base>>
\* a - b for 5-limb numbers a >= b
Minus5(a, b) ==
    LET t1 == a[1] - b[1]
        t2 == a[2] - b[2] + (t1 \div Base)
        t3 == a[3] - b[3] + (t2 \div Base)
        t4 == a[4] - b[4] + (t3 \div Base)
        t5 == a[5] - b[5] + (t4 \div Base)
    IN  <<t1 % Base, t2 % Base, t3 % Base, t4 % Base, t5 % Base>>

\* long division, one digit: r < v * Base, the top limb of the 4-limb v (held in
\* 5 limbs) at least Base / 2. The estimate from the top limbs is at most 2 too big.
Capped(q) == IF q > Base - 1 THEN Base - 1 ELSE q
Estimate(r, v) == Capped((r[5] * Base + r[4]) \div v[4])
\* <<digit, remainder>> given a candidate digit q and p = v * q
Settle2(r, v, q, p) ==
    IF Less5(r, p) THEN <<q - 1, Minus5(r, Minus5(p, v))>> ELSE <<q, Minus5(r, p)>>
Settle1(r, v, q, p) ==
    IF Less5(r, p) THEN Settle2(r, v, q - 1, Minus5(p, v)) ELSE <<q, Minus5(r, p)>>
Settle(r, v, q) == Settle1(r, v, q, Times(v, q))
DivDigit(r, v) == Settle(r, v, Estimate(r, v))
\* the state <<digits found, remainder>> with one more digit d = <<digit, remainder>>
Push(digits, d) == <<<<d[1]>> \o digits, d[2]>>
\* the remainder moved up by one limb
Lifted(r) == <<0, r[1], r[2], r[3], r[4]>>
DivStep(st, v) == Push(st[1], DivDigit(Lifted(st[2]), v))
\* the five digits of u / v and the remainder
Quotient(u, v) ==
    DivStep(DivStep(DivStep(DivStep(Push(<<>>, DivDigit(u, v)), v), v), v), v)
PackQuotient(s, e, st) == RoundPack(s, e, st[1], st[2] # <<0, 0, 0, 0, 0>>)
\* x / y, y # 0
RDiv(x, y) ==
    IF x = Zero THEN Zero
    ELSE PackQuotient(IF x[1] = y[1] THEN 0 ELSE 1, x[2] - y[2] - 56,
                      Quotient(Times8(x), Times8(y)))

\* the double nearest to n / d: float(n) / float(d), a decimal literal n / d
Rat(n, d) == RDiv(R(n), R(d))

\* the float literals 1 and 100
One == R(1)
Hundred == R(100)

\* h hundredths as a double
Hundredths(s, h) ==
    IF h = <<0, 0, 0, 0, 0>> THEN Zero
    ELSE RDiv(RoundPack(s, 0, <<h[2], h[3], h[4], h[5], 0>>, FALSE), Hundred)
\* n * 2^-k to the nearest integer, ties to even: <<0, the four limbs>>
NearestInt(n, k) ==
    IF BitSet(n, k - 1) /\ (LowBits(n, k - 1) \/ BitSet(n, k))
    THEN Increment(ShiftRight(n, k))
    ELSE Lifted(ShiftRight(n, k))
\* Python round(x, 2): the nearest hundredth of the exact value of x, ties to the
\* even hundredth, then the double nearest to that decimal
Round2(x) ==
    IF x = Zero \/ x[2] >= -6 THEN x
    ELSE Hundredths(x[1], NearestInt(Times(<<x[3], x[4], x[5], x[6]>>, 100), -x[2]))

\* Python truthiness of an Optional[float]: None and 0.0 are falsy
Truthy(x) == x # None /\ ~RIsZero(x)

----------------------------------------------------------------------------
(* Enumerations *)

\* names of SequenceStatus members
SequenceStatusNames ==
    {"ACTIVE", "CLOSED_TP1", "CLOSED_TP2", "CLOSED_SL", "CLOSED_MANUAL",
     "EXPIRED", "CANCELLED"}

NoTime == <<>>
At(t) == <<t>>

----------------------------------------------------------------------------
(* Program constants *)

\* DataDrivenShortStrategy: exit levels of the INITIAL signal, percent of entry
StrategyTp1Percent == 8
StrategyTp2Percent == 13
StrategySlPercent == 5
\* DataDrivenShortStrategy: leverage and margin of a signal with confidence >= 0.85
StrategyLeverage == 25
StrategyMargin == 20
\* ... and of a signal with 0.7 <= confidence < 0.85
StrategyLowLeverage == 20
StrategyLowMargin == 15
\* the confidence thresholds 0.85 and 0.7 (min_confidence)
HighConfidence == Rat(85, 100)
MinConfidence == Rat(7, 10)
\* number of SHORT conditions the confidence is the share of
ConditionsCount == 4
\* close_sequence / calculate_sequence_pnl: leverage used when total_leverage is falsy
DefaultLeverage == 20
\* _close_signal: "signal.recommended_margin or 10"
DefaultMargin == 10
\* the leverage default as the float the PnL products are computed with
DefaultLeverageValue == R(DefaultLeverage)
\* _check_signal_outcome: a signal expires after 48 hours
SignalExpiryMinutes == 2880
\* add_martingale_to_sequence: take-profit offsets of the weighted average, percent
Tp1Percent == 10
Tp2Percent == 15
\* add_martingale_to_sequence: the float literals 0.90, 0.85, 1.10 and 1.15
ShortTp1Factor == Rat(100 - Tp1Percent, 100)
ShortTp2Factor == Rat(100 - Tp2Percent, 100)
LongTp1Factor == Rat(100 + Tp1Percent, 100)
LongTp2Factor == Rat(100 + Tp2Percent, 100)
\* MartingaleManager as constructed in main.py
TriggerPercent == 15
CooldownMinutes == 30
\* main.py reads the manager's max_steps from MARTINGALE_MAX_STEPS, independently
\* of the max_steps the signals carry
EnvMaxSteps == {MaxStepsCfg - 1, MaxStepsCfg, MaxStepsCfg + 1}
\* the MartingaleManager objects main.py may construct
ManagerConfigs ==
    { [max_steps |-> m, tp1_percent |-> 10, tp2_percent |-> 15] : m \in EnvMaxSteps }
\* tp1_percent / tp2_percent arguments of MartingaleManager.__init__: the ones
\* main.py passes and the offsets of the strategy's signals
TpPercentArgs == { <<10, 15>>, <<StrategyTp1Percent, StrategyTp2Percent>> }
MartingaleMaxSteps == manager.max_steps
\* trigger_percent as the float should_add_martingale compares with
ManagerTriggerPercent == R(TriggerPercent)
Step1Multiplier == Rat(25, 10)
Step2PlusMultiplier == Rat(135, 100)

\* price of the first entry handed over by the upstream signal generator
FirstEntryPrice == Hundred

----------------------------------------------------------------------------
(* Inputs *)

Directions == {"SHORT", "LONG"}
\* get_ticker_price raised instead of returning
FetchRaises == <<0, -1>>
\* ticker prices the exchange may return (None: no ticker this tick)
TickerPrices == {R(85), R(90), R(100), R(110), R(115)}
\* calls add_martingale_to_sequence(1, entry_price, margin, leverage) of a manual
\* caller: <<entry_price, margin, leverage>> (leverage None: not given)
AdvanceInputs ==
    { <<R(115), R(50), None>>, <<R(85), R(50), R(10)>>, <<R(115), R(0), None>> }
\* exit prices and outcome strings handed to close_sequence by a manual caller
ManualExitPrices == {R(90)}
ManualOutcomes == {"HIT_TP2", "EXPIRED"}
\* prices track_signal_manual is called with: between the levels of the first
\* signal, at its take-profit (SHORT) or beyond its stop-loss (LONG), and 0
UpdatePrices == {R(100), R(90), R(0)}
\* signal producers: <<side, supplies a stop_loss, SHORT conditions met>>. The
\* strategy itself is SHORT with a stop_loss; the others are producers of LONG
\* signals and of signals without stop_loss, at full confidence
ProducerInputs ==
    { <<"SHORT", TRUE, 4>>, <<"SHORT", TRUE, 3>>, <<"SHORT", TRUE, 2>>,
      <<"SHORT", FALSE, 4>>, <<"LONG", TRUE, 4>>, <<"LONG", FALSE, 4>> }

Pct(p) == Rat(p, 100)

\* generate_signal, lines 119-121: the factors (1 - tp1_percent / 100),
\* (1 - tp2_percent / 100), (1 + sl_percent / 100) of a SHORT signal, and
\* their mirror images for a LONG one
ShortSignalTp1Factor == RSub(One, Pct(StrategyTp1Percent))
ShortSignalTp2Factor == RSub(One, Pct(StrategyTp2Percent))
ShortSignalSlFactor == RAdd(One, Pct(StrategySlPercent))
LongSignalTp1Factor == RAdd(One, Pct(StrategyTp1Percent))
LongSignalTp2Factor == RAdd(One, Pct(StrategyTp2Percent))
LongSignalSlFactor == RSub(One, Pct(StrategySlPercent))

\* _calculate_confidence for a symbol without boost: the share of conditions met
\* plus the boost 0, capped at 1.0 (min(base_confidence + boost, 1.0))
CalculateConfidence(conditions_met) ==
    IF RLt(One, RAdd(RDiv(R(conditions_met), R(ConditionsCount)), Zero))
    THEN One
    ELSE RAdd(RDiv(R(conditions_met), R(ConditionsCount)), Zero)

\* generate_signal, lines 103-115: <<leverage, margin>> for a confidence, <<>> when
\* the strategy returns None
LeverageAndMargin(confidence) ==
    IF RLt(confidence, MinConfidence) THEN <<>>
    ELSE IF RGe(confidence, HighConfidence) THEN <<StrategyLeverage, StrategyMargin>>
    ELSE IF RGe(confidence, MinConfidence) THEN <<StrategyLowLeverage, StrategyLowMargin>>
    ELSE <<>>

\* generate_signal, lines 117-150: <<the signal dict>> for the entry price e and
\* <<leverage, margin>>, <<>> for None
SignalDict(side, withSl, e, tier) ==
    IF tier = <<>> THEN <<>>
    ELSE << [ side |-> side,
              entry_price |-> e,
              take_profit_1 |-> RMul(e, IF side = "SHORT" THEN ShortSignalTp1Factor
                                        ELSE LongSignalTp1Factor),
              take_profit_2 |-> RMul(e, IF side = "SHORT" THEN ShortSignalTp2Factor
                                        ELSE LongSignalTp2Factor),
              stop_loss |-> IF withSl
                            THEN RMul(e, IF side = "SHORT" THEN ShortSignalSlFactor
                                         ELSE LongSignalSlFactor)
                            ELSE None,
              recommended_leverage |-> R(tier[1]),
              recommended_margin |-> R(tier[2]),
              max_steps |-> MaxStepsCfg ] >>

\* DataDrivenShortStrategy.generate_signal: <<the signal dict>> of an INITIAL
\* signal, <<>> for None (LONG mirrored; withSl = FALSE is a producer that
\* supplies no stop_loss)
GenerateSignal(side, withSl, conditions_met) ==
    SignalDict(side, withSl, FirstEntryPrice,
               LeverageAndMargin(CalculateConfidence(conditions_met)))

----------------------------------------------------------------------------
(* DatabaseManager *)

\* create_sequence: the new position_sequences row
CreateSequenceRow(sd, t) ==
    [ direction |-> IF sd.side = "SHORT" THEN "SHORT" ELSE "LONG",
      status |-> "ACTIVE",
      current_step |-> 1,
      max_steps |-> sd.max_steps,
      first_entry_price |-> sd.entry_price,
      last_entry_price |-> sd.entry_price,
      weighted_avg_entry |-> sd.entry_price,
      total_margin |-> sd.recommended_margin,
      total_leverage |-> sd.recommended_leverage,
      current_tp1 |-> sd.take_profit_1,
      current_tp2 |-> sd.take_profit_2,
      current_sl |-> sd.stop_loss,
      opened_at |-> At(t),
      closed_at |-> NoTime,
      last_martingale_suggestion_at |-> NoTime,
      final_exit_price |-> None,
      total_pnl |-> None,
      total_pnl_pct |-> None ]

\* create_signal: the new bot_signals row (result: its signal_results row, if any)
CreateSignalRow(sd, sequence_id, t) ==
    [ sequence_id |-> sequence_id,
      direction |-> sd.side,
      entry_price |-> sd.entry_price,
      stop_loss |-> sd.stop_loss,
      take_profit_1 |-> sd.take_profit_1,
      take_profit_2 |-> sd.take_profit_2,
      signal_time |-> At(t),
      recommended_margin |-> sd.recommended_margin,
      recommended_leverage |-> sd.recommended_leverage,
      actual_margin |-> sd.recommended_margin,
      step_number |-> 1,
      status |-> "ACTIVE",
      result |-> <<>> ]

\* create_signal commits only when the NOT NULL column stop_loss has a value
CreateSignalCommits(sd) == sd.stop_loss # None

\* mutant: the running total is rebuilt from first_entry_price, not from the average
NewWeightedAvg_FromFirstEntry(seq, entry_price, margin) ==
    RDiv(RAdd(RMul(seq.first_entry_price, seq.total_margin), RMul(entry_price, margin)),
         RAdd(seq.total_margin, margin))

\* mutant: the new total value is divided by the total margin before the advance
NewWeightedAvg_OldTotalMargin(seq, entry_price, margin) ==
    RDiv(RAdd(RMul(seq.weighted_avg_entry, seq.total_margin), RMul(entry_price, margin)),
         seq.total_margin)

\* add_martingale_to_sequence, lines 387-391: the recomputed weighted average,
\* new_total_value / new_total_margin with
\* new_total_value = current_total_value + (entry_price * margin) and
\* current_total_value = weighted_avg_entry * total_margin
NewWeightedAvg(seq, entry_price, margin) ==
    RDiv(RAdd(RMul(seq.weighted_avg_entry, seq.total_margin), RMul(entry_price, margin)),
         RAdd(seq.total_margin, margin))

\* add_martingale_to_sequence, lines 393-401: take-profit levels of an average
NewTp1(direction, avg) ==
    IF direction = "SHORT"
    THEN RMul(avg, ShortTp1Factor)
    ELSE RMul(avg, LongTp1Factor)

NewTp2(direction, avg) ==
    IF direction = "SHORT"
    THEN RMul(avg, ShortTp2Factor)
    ELSE RMul(avg, LongTp2Factor)

\* mutant: the status check of line 384 is missing
AddMartingaleError_NoStatusCheck(table, margin) ==
    IF table = <<>> THEN "ValueError: not found"
    ELSE IF RIsZero(RAdd(table[1].total_margin, margin)) THEN "ZeroDivisionError"
    ELSE ""

\* add_martingale_to_sequence: the exception it raises ("" when it commits)
AddMartingaleError(table, margin) ==
    IF table = <<>> THEN "ValueError: not found"
    ELSE IF table[1].status # "ACTIVE" THEN "ValueError: not active"
    ELSE IF RIsZero(RAdd(table[1].total_margin, margin)) THEN "ZeroDivisionError"
    ELSE ""

\* the columns of a position_sequences row the arithmetic reads
Position(seq) ==
    [ direction |-> seq.direction,
      first_entry_price |-> seq.first_entry_price,
      weighted_avg_entry |-> seq.weighted_avg_entry,
      total_margin |-> seq.total_margin,
      total_leverage |-> seq.total_leverage ]

\* table[key] where the table has the key, the value computed on the spot elsewhere
Cached(table, key, value) == IF key \in DOMAIN table THEN table[key] ELSE value

\* mutant: the take-profit levels are taken from the average before the new entry
AdvanceValues_StaleTps(seq, entry_price, margin) ==
    <<NewWeightedAvg(seq, entry_price, margin), RAdd(seq.total_margin, margin),
      NewTp1(seq.direction, seq.weighted_avg_entry),
      NewTp2(seq.direction, seq.weighted_avg_entry)>>

\* add_martingale_to_sequence, lines 387-401:
\* <<new_weighted_avg, new_total_margin, new_tp1, new_tp2>>
AdvanceValues(seq, entry_price, margin) ==
    <<NewWeightedAvg(seq, entry_price, margin), RAdd(seq.total_margin, margin),
      NewTp1(seq.direction, NewWeightedAvg(seq, entry_price, margin)),
      NewTp2(seq.direction, NewWeightedAvg(seq, entry_price, margin))>>

\* add_martingale_to_sequence, lines 403-412: the row it commits, given the values
\* <<new_weighted_avg, new_total_margin, new_tp1, new_tp2>>
AdvancedRow(seq, entry_price, leverage, values) ==
    [ seq EXCEPT
        !.current_step = seq.current_step + 1,
        !.last_entry_price = entry_price,
        !.weighted_avg_entry = values[1],
        !.total_margin = values[2],
        !.current_tp1 = values[3],
        !.current_tp2 = values[4],
        !.total_leverage = IF Truthy(leverage) THEN leverage ELSE seq.total_leverage ]

\* the rows create_sequence makes of the producers' signals
CreatedRows ==
    { CreateSequenceRow(GenerateSignal(s[1], s[2], s[3])[1], 0) :
        s \in { i \in ProducerInputs : GenerateSignal(i[1], i[2], i[3]) # <<>> } }

\* the rows after one more advance of some of the given rows
AdvancedRows(rows) ==
    { AdvancedRow(r, a[1], a[3], AdvanceValues(r, a[1], a[2])) :
        r \in { q \in rows : ~RIsZero(q.total_margin) }, a \in AdvanceInputs }

\* the rows after at most n advances
RECURSIVE RowsAfter(_)
RowsAfter(n) ==
    IF n = 0 THEN CreatedRows
    ELSE RowsAfter(n - 1) \cup AdvancedRows(RowsAfter(n - 1))

\* the positions a sequence of the model can have, and the advances of each:
\* their values are computed once
Positions == { Position(r) : r \in RowsAfter(StepCap - 1) }
AdvanceTable ==
    [ k \in { <<p, a[1], a[2]>> :
                p \in { q \in Positions : ~RIsZero(q.total_margin) }, a \in AdvanceInputs }
        |-> AdvanceValues(k[1], k[2], k[3]) ]

\* add_martingale_to_sequence: the row it commits
AddMartingaleRow(seq, entry_price, margin, leverage) ==
    AdvancedRow(seq, entry_price, leverage,
                Cached(AdvanceTable, <<Position(seq), entry_price, margin>>,
                       AdvanceValues(seq, entry_price, margin)))

\* mutant: the PnL percent is computed from first_entry_price
SequencePnlPct_FromFirstEntry(seq, exit_price) ==
    IF seq.direction = "SHORT"
    THEN RMul(RDiv(RSub(seq.first_entry_price, exit_price), seq.first_entry_price), Hundred)
    ELSE RMul(RDiv(RSub(exit_price, seq.first_entry_price), seq.first_entry_price), Hundred)

\* close_sequence, lines 481-486: PnL percent of the sequence from its average
SequencePnlPct(seq, exit_price) ==
    IF seq.direction = "SHORT"
    THEN RMul(RDiv(RSub(seq.weighted_avg_entry, exit_price), seq.weighted_avg_entry), Hundred)
    ELSE RMul(RDiv(RSub(exit_price, seq.weighted_avg_entry), seq.weighted_avg_entry), Hundred)

\* close_sequence, lines 489-490: total PnL in USDT for the PnL percent
SequenceTotalPnl(seq, pnl_pct) ==
    RMul(RMul(seq.total_margin,
              IF Truthy(seq.total_leverage) THEN seq.total_leverage
              ELSE DefaultLeverageValue),
         RDiv(pnl_pct, Hundred))

\* close_sequence: the exception it raises ("" when it commits).
\* SequenceStatus[outcome] looks the outcome up among the member names.
CloseSequenceError(table, outcome) ==
    IF table = <<>> THEN "ValueError: not found"
    ELSE IF RIsZero(table[1].weighted_avg_entry) THEN "ZeroDivisionError"
    ELSE IF outcome \notin SequenceStatusNames THEN "KeyError"
    ELSE ""

\* close_sequence, lines 481-490: <<pnl_pct, total_pnl>>
CloseValues(seq, exit_price) ==
    <<SequencePnlPct(seq, exit_price),
      SequenceTotalPnl(seq, SequencePnlPct(seq, exit_price))>>

\* the exit prices of the model, and the PnL of each position at each, computed once
ExitPrices == ManualExitPrices \cup TickerPrices \cup UpdatePrices
CloseTable ==
    [ k \in { <<p, x>> : p \in { q \in Positions : ~RIsZero(q.weighted_avg_entry) },
                         x \in ExitPrices }
        |-> CloseValues(k[1], k[2]) ]

\* close_sequence, lines 492-498: the row it commits, given <<pnl_pct, total_pnl>>
ClosedRow(seq, exit_price, outcome, t, pnl) ==
    [ seq EXCEPT
        !.status = outcome,
        !.closed_at = At(t),
        !.final_exit_price = exit_price,
        !.total_pnl = pnl[2],
        !.total_pnl_pct = pnl[1] ]

\* close_sequence: the row it commits
CloseSequenceRow(seq, exit_price, outcome, t) ==
    ClosedRow(seq, exit_price, outcome, t,
              Cached(CloseTable, <<Position(seq), exit_price>>,
                     CloseValues(seq, exit_price)))

\* mutant: the LONG formula is used for every signal
SignalPnlPct_LongFormula(sig, exit_price) ==
    RMul(RDiv(RSub(exit_price, sig.entry_price), sig.entry_price), Hundred)

\* close_sequence, lines 506-509: PnL percent of one signal from its own entry
SignalPnlPct(sig, exit_price) ==
    IF sig.direction = "LONG"
    THEN RMul(RDiv(RSub(exit_price, sig.entry_price), sig.entry_price), Hundred)
    ELSE RMul(RDiv(RSub(sig.entry_price, exit_price), sig.entry_price), Hundred)

\* the columns of a bot_signals row the arithmetic reads
Entry(sig) ==
    [ direction |-> sig.direction,
      entry_price |-> sig.entry_price,
      actual_margin |-> sig.actual_margin,
      recommended_margin |-> sig.recommended_margin,
      recommended_leverage |-> sig.recommended_leverage ]

\* the entries create_signal makes of the producers' signals
Entries ==
    { Entry(CreateSignalRow(GenerateSignal(s[1], s[2], s[3])[1], 1, 0)) :
        s \in { i \in ProducerInputs : GenerateSignal(i[1], i[2], i[3]) # <<>> } }

\* <<pnl_pct, pnl>> with pnl = margin * leverage * (pnl_pct / 100)
SignalPnl(margin, leverage, pnl_pct) ==
    <<pnl_pct, RMul(RMul(margin, leverage), RDiv(pnl_pct, Hundred))>>

\* the SignalResult row of a closed signal, given <<pnl_pct, pnl>>
SignalResultRow(outcome, exit_price, pnl) ==
    [ outcome |-> outcome,
      actual_exit_price |-> exit_price,
      theoretical_pnl |-> pnl[2],
      theoretical_pnl_pct |-> pnl[1],
      is_win |-> outcome \in {"HIT_TP1", "HIT_TP2"} ]

\* close_sequence, lines 503-511: <<signal_pnl_pct, signal_pnl>> of one signal
SequenceSignalValues(sig, exit_price) ==
    SignalPnl(IF Truthy(sig.actual_margin) THEN sig.actual_margin
              ELSE sig.recommended_margin,
              IF Truthy(sig.recommended_leverage) THEN sig.recommended_leverage
              ELSE DefaultLeverageValue,
              SignalPnlPct(sig, exit_price))

\* ... of each entry at each exit price, computed once
SequenceSignalTable ==
    [ k \in { <<e, x>> : e \in { q \in Entries : ~RIsZero(q.entry_price) },
                         x \in ExitPrices }
        |-> SequenceSignalValues(k[1], k[2]) ]

\* close_sequence, lines 501-527: one signal of the sequence after the close
CloseSignalRow(sig, exit_price, outcome) ==
    IF sig.status # "ACTIVE" THEN sig
    ELSE [ sig EXCEPT
             !.status = "CLOSED",
             !.result =
                 Append(sig.result,
                        SignalResultRow(outcome, exit_price,
                            Cached(SequenceSignalTable, <<Entry(sig), exit_price>>,
                                   SequenceSignalValues(sig, exit_price)))) ]

\* close_sequence, line 501: "for signal in sequence.signals", the bot_signals table
\* after the signals of the sequence have been closed
CloseSignals(sigs, sequence_id, exit_price, outcome) ==
    [ i \in DOMAIN sigs |->
        IF sigs[i].sequence_id = sequence_id
        THEN CloseSignalRow(sigs[i], exit_price, outcome)
        ELSE sigs[i] ]

\* _check_signal_outcome: the outcome for one signal at a price and time t in
\* minutes ("" for None)
CheckSignalOutcome(sig, current_price, t) ==
    IF sig.direction = "LONG" /\ RGe(current_price, sig.take_profit_2) THEN "HIT_TP2"
    ELSE IF sig.direction = "LONG" /\ RGe(current_price, sig.take_profit_1) THEN "HIT_TP1"
    ELSE IF sig.direction = "LONG" /\ RLe(current_price, sig.stop_loss) THEN "HIT_SL"
    ELSE IF sig.direction # "LONG" /\ RLe(current_price, sig.take_profit_2) THEN "HIT_TP2"
    ELSE IF sig.direction # "LONG" /\ RLe(current_price, sig.take_profit_1) THEN "HIT_TP1"
    ELSE IF sig.direction # "LONG" /\ RGe(current_price, sig.stop_loss) THEN "HIT_SL"
    ELSE IF t - sig.signal_time[1] > SignalExpiryMinutes THEN "EXPIRED"
    ELSE ""

\* _close_signal, lines 252-255: PnL percent of the signal
CloseSignalPnlPct(sig, exit_price) ==
    IF sig.direction = "LONG"
    THEN RMul(RDiv(RSub(exit_price, sig.entry_price), sig.entry_price), Hundred)
    ELSE RMul(RDiv(RSub(sig.entry_price, exit_price), sig.entry_price), Hundred)

\* _close_signal, lines 252-262: <<pnl_pct, theoretical_pnl>>
CloseSignalValues(sig, exit_price) ==
    SignalPnl(IF Truthy(sig.recommended_margin) THEN sig.recommended_margin
              ELSE R(DefaultMargin),
              IF Truthy(sig.recommended_leverage) THEN sig.recommended_leverage
              ELSE DefaultLeverageValue,
              CloseSignalPnlPct(sig, exit_price))

\* ... of each entry at each exit price, computed once
CloseSignalTable ==
    [ k \in { <<e, x>> : e \in { q \in Entries : ~RIsZero(q.entry_price) },
                         x \in ExitPrices }
        |-> CloseSignalValues(k[1], k[2]) ]

\* _close_signal: the signal after it, with the SignalResult row it adds
CloseSignal(sig, exit_price, outcome) ==
    [ sig EXCEPT
        !.status = "CLOSED",
        !.result =
            Append(sig.result,
                   SignalResultRow(outcome, exit_price,
                       Cached(CloseSignalTable, <<Entry(sig), exit_price>>,
                              CloseSignalValues(sig, exit_price)))) ]

\* update_signal_price, lines 192-199: the exception it raises ("" when it goes
\* on to the outcome check): the distances divide by entry_price and current_price
UpdateSignalPriceError(sig, current_price) ==
    IF RIsZero(sig.entry_price) THEN "ZeroDivisionError"
    ELSE IF sig.stop_loss = None THEN "TypeError"
    ELSE IF RIsZero(current_price) THEN "ZeroDivisionError"
    ELSE ""

\* update_signal_price: the signal row after the call (the SignalPriceUpdate rows
\* it adds are not tracked); an exception leaves the row as it was
UpdateSignalPriceRow(sig, current_price, t) ==
    LET outcome == CheckSignalOutcome(sig, current_price, t) IN
    IF UpdateSignalPriceError(sig, current_price) # "" THEN sig
    ELSE IF outcome # "" THEN CloseSignal(sig, current_price, outcome)
    ELSE sig

----------------------------------------------------------------------------
(* MartingaleManager *)

\* mutant: TP1 is tested before TP2
CheckSequenceClose_Tp1First(seq, current_price) ==
    IF seq.status # "ACTIVE" THEN ""
    ELSE IF seq.direction = "SHORT"
    THEN IF Truthy(seq.current_tp1) /\ RLe(current_price, seq.current_tp1) THEN "HIT_TP1"
         ELSE IF Truthy(seq.current_tp2) /\ RLe(current_price, seq.current_tp2) THEN "HIT_TP2"
         ELSE IF Truthy(seq.current_sl) /\ RGe(current_price, seq.current_sl) THEN "HIT_SL"
         ELSE ""
    ELSE IF Truthy(seq.current_tp1) /\ RGe(current_price, seq.current_tp1) THEN "HIT_TP1"
         ELSE IF Truthy(seq.current_tp2) /\ RGe(current_price, seq.current_tp2) THEN "HIT_TP2"
         ELSE IF Truthy(seq.current_sl) /\ RLe(current_price, seq.current_sl) THEN "HIT_SL"
         ELSE ""

\* mutant: the status test of lines 324-325 is missing
CheckSequenceClose_NoStatusCheck(seq, current_price) ==
    IF seq.direction = "SHORT"
    THEN IF Truthy(seq.current_tp2) /\ RLe(current_price, seq.current_tp2) THEN "HIT_TP2"
         ELSE IF Truthy(seq.current_tp1) /\ RLe(current_price, seq.current_tp1) THEN "HIT_TP1"
         ELSE IF Truthy(seq.current_sl) /\ RGe(current_price, seq.current_sl) THEN "HIT_SL"
         ELSE ""
    ELSE IF Truthy(seq.current_tp2) /\ RGe(current_price, seq.current_tp2) THEN "HIT_TP2"
         ELSE IF Truthy(seq.current_tp1) /\ RGe(current_price, seq.current_tp1) THEN "HIT_TP1"
         ELSE IF Truthy(seq.current_sl) /\ RLe(current_price, seq.current_sl) THEN "HIT_SL"
         ELSE ""

\* check_sequence_close: "HIT_TP2", "HIT_TP1", "HIT_SL", or "" for (False, None)
CheckSequenceClose(seq, current_price) ==
    IF seq.status # "ACTIVE" THEN ""
    ELSE IF seq.direction = "SHORT"
    THEN IF Truthy(seq.current_tp2) /\ RLe(current_price, seq.current_tp2) THEN "HIT_TP2"
         ELSE IF Truthy(seq.current_tp1) /\ RLe(current_price, seq.current_tp1) THEN "HIT_TP1"
         ELSE IF Truthy(seq.current_sl) /\ RGe(current_price, seq.current_sl) THEN "HIT_SL"
         ELSE ""
    ELSE IF Truthy(seq.current_tp2) /\ RGe(current_price, seq.current_tp2) THEN "HIT_TP2"
         ELSE IF Truthy(seq.current_tp1) /\ RGe(current_price, seq.current_tp1) THEN "HIT_TP1"
         ELSE IF Truthy(seq.current_sl) /\ RLe(current_price, seq.current_sl) THEN "HIT_SL"
         ELSE ""

\* _calculate_price_move_pct
CalculatePriceMovePct(entry_price, current_price, direction) ==
    IF direction = "SHORT"
    THEN RMul(RDiv(RSub(current_price, entry_price), entry_price), Hundred)
    ELSE RMul(RDiv(RSub(entry_price, current_price), entry_price), Hundred)

\* the entry prices a sequence of the model can have as its last one, and the move
\* of each ticker price against each, computed once
PriceMoveTable ==
    [ k \in { <<e, x, d>> : e \in {FirstEntryPrice} \cup { a[1] : a \in AdvanceInputs },
                            x \in TickerPrices, d \in Directions }
        |-> CalculatePriceMovePct(k[1], k[2], k[3]) ]

\* should_add_martingale, lines 97-103: the move of the price against the last
\* entry, in percent
PriceMovePct(seq, current_price) ==
    Cached(PriceMoveTable,
           <<IF Truthy(seq.last_entry_price) THEN seq.last_entry_price
             ELSE seq.first_entry_price, current_price, seq.direction>>,
           CalculatePriceMovePct(IF Truthy(seq.last_entry_price) THEN seq.last_entry_price
                                 ELSE seq.first_entry_price,
                                 current_price, seq.direction))

\* _calculate_next_margin, lines 174-175: the last element of the signals sorted
\* by step_number (the sort is stable)
LastSignal(sigs) ==
    LET i == CHOOSE i \in DOMAIN sigs :
                 \A j \in DOMAIN sigs :
                     \/ sigs[j].step_number < sigs[i].step_number
                     \/ (sigs[j].step_number = sigs[i].step_number /\ j <= i)
    IN  sigs[i]

\* _calculate_next_margin, lines 173-181: the margin of the last signal, or the
\* average margin per step when no signals are loaded
LastMargin(seq, sigs) ==
    IF sigs # <<>>
    THEN IF Truthy(LastSignal(sigs).actual_margin)
         THEN LastSignal(sigs).actual_margin
         ELSE LastSignal(sigs).recommended_margin
    ELSE RDiv(seq.total_margin, R(seq.current_step))

\* _calculate_next_margin: the margin suggested for the next entry, from the
\* sequence object and its loaded signals
CalculateNextMargin(seq, sigs) ==
    Round2(RMul(LastMargin(seq, sigs),
                IF seq.current_step = 1 THEN Step1Multiplier ELSE Step2PlusMultiplier))

\* mutant: the cooldown test of lines 87-94 is missing
ShouldAddMartingale_NoCooldown(seq, current_price, t) ==
    /\ seq.status = "ACTIVE"
    /\ ~(seq.current_step >= MartingaleMaxSteps)
    /\ ~RLt(PriceMovePct(seq, current_price), ManagerTriggerPercent)

\* should_add_martingale: the boolean it returns, evaluated at time t
ShouldAddMartingale(seq, current_price, t) ==
    /\ seq.status = "ACTIVE"
    /\ ~(seq.current_step >= MartingaleMaxSteps)
    /\ ~(/\ seq.last_martingale_suggestion_at # NoTime
         /\ t - seq.last_martingale_suggestion_at[1] < CooldownMinutes)
    /\ ~RLt(PriceMovePct(seq, current_price), ManagerTriggerPercent)

\* _calculate_new_weighted_avg of the manager
CalculateNewWeightedAvg(seq, new_entry_price, new_margin) ==
    RDiv(RAdd(RMul(seq.weighted_avg_entry, seq.total_margin),
              RMul(new_entry_price, new_margin)),
         RAdd(seq.total_margin, new_margin))

\* _calculate_new_tps of the manager mgr: <<tp1, tp2>> of an average
CalculateNewTps(mgr, avg_entry, direction) ==
    IF direction = "SHORT"
    THEN << RMul(avg_entry, RSub(One, Rat(mgr.tp1_percent, 100))),
            RMul(avg_entry, RSub(One, Rat(mgr.tp2_percent, 100))) >>
    ELSE << RMul(avg_entry, RAdd(One, Rat(mgr.tp1_percent, 100))),
            RMul(avg_entry, RAdd(One, Rat(mgr.tp2_percent, 100))) >>

\* should_add_martingale, lines 118-136: the suggestion dict, given the suggested
\* margin, the new average and the new take-profit levels
SuggestionDict(seq, current_price, suggested_margin, new_weighted_avg, new_tps) ==
    [ current_step |-> seq.current_step,
      next_step |-> seq.current_step + 1,
      suggested_entry |-> current_price,
      suggested_margin |-> suggested_margin,
      new_weighted_avg |-> new_weighted_avg,
      new_total_margin |-> RAdd(seq.total_margin, suggested_margin),
      new_tp1 |-> new_tps[1],
      new_tp2 |-> new_tps[2] ]

\* should_add_martingale, lines 106-116, for a suggested margin and the average
\* computed from it
SuggestionFor(mgr, seq, current_price, suggested_margin, new_weighted_avg) ==
    SuggestionDict(seq, current_price, suggested_margin, new_weighted_avg,
                   CalculateNewTps(mgr, new_weighted_avg, seq.direction))

SuggestionOf(mgr, seq, current_price, suggested_margin) ==
    SuggestionFor(mgr, seq, current_price, suggested_margin,
                  CalculateNewWeightedAvg(seq, current_price, suggested_margin))

\* should_add_martingale, lines 106-136: the suggestion the manager mgr returns
\* with True for the sequence object and its loaded signals
Suggestion(mgr, seq, sigs, current_price) ==
    SuggestionOf(mgr, seq, current_price, CalculateNextMargin(seq, sigs))

----------------------------------------------------------------------------
(* State machine *)

Op(name, err, outcome) == [op |-> name, err |-> err, outcome |-> outcome]

\* the objects as main.py constructs them: empty tables, a SignalTracker with
\* is_running = False whose start_tracking task has been created but has not run
Init ==
    /\ sequences = <<>>
    /\ signals = <<>>
    /\ committed = <<>>
    /\ now = 0
    /\ pc = "off"
    /\ snapshot = <<>>
    /\ lastOp = Op("init", "", "")
    /\ manager \in ManagerConfigs
    /\ is_running = FALSE

\* session.query(PositionSequence).filter_by(id=sequence_id): the rows found
RowOf(table, sequence_id) ==
    IF sequence_id \in DOMAIN table THEN <<table[sequence_id]>> ELSE <<>>

\* session.commit(): the table with the row of that query as it is now
Stored(table, sequence_id, found) ==
    IF found = <<>> THEN table ELSE [table EXCEPT ![sequence_id] = found[1]]

\* main.py monitor_markets, lines 153-200, for the n-th symbol of the scan:
\* generate_signal, then for a signal create_sequence and
\* create_signal(signal, sequence_id). A symbol opens at most one sequence here.
MonitorSymbol(n, side, withSl, conditions_met) ==
    /\ Len(sequences) = n - 1
    /\ \E generated \in {GenerateSignal(side, withSl, conditions_met)} :
         IF generated = <<>>
         THEN /\ lastOp' = Op("no_signal", "", "")
              /\ UNCHANGED <<sequences, signals, committed>>
         ELSE \E sd \in {generated[1]} :
              /\ sequences' = Append(sequences, CreateSequenceRow(sd, now))
              /\ signals' = IF CreateSignalCommits(sd)
                            THEN Append(signals, CreateSignalRow(sd, n, now))
                            ELSE signals
              /\ committed' = IF n = 1
                              THEN << <<sd.entry_price, sd.recommended_margin>> >>
                              ELSE committed
              /\ lastOp' = Op("create",
                              IF CreateSignalCommits(sd) THEN "" ELSE "IntegrityError", "")
    /\ UNCHANGED <<now, pc, snapshot, manager, is_running>>

\* monitor_markets for the symbol whose sequence is followed step by step
MonitorMarkets(side, withSl, conditions_met) ==
    MonitorSymbol(1, side, withSl, conditions_met)

\* DatabaseManager.add_martingale_to_sequence(1, entry_price, margin, leverage)
AddMartingale(entry_price, margin, leverage) ==
    \E err \in {AddMartingaleError(RowOf(sequences, 1), margin)} :
    /\ err = "" => sequences[1].current_step < StepCap
    /\ IF err = ""
       THEN /\ sequences' = Stored(sequences, 1,
                              <<AddMartingaleRow(sequences[1], entry_price, margin, leverage)>>)
            /\ committed' = Append(committed, <<entry_price, margin>>)
       ELSE UNCHANGED <<sequences, committed>>
    /\ lastOp' = Op("add_martingale", err, "")
    /\ UNCHANGED <<signals, now, pc, snapshot, manager, is_running>>

\* DatabaseManager.close_sequence(1, exit_price, outcome) called outside the tick
CloseSequence(exit_price, outcome) ==
    \E err \in {CloseSequenceError(RowOf(sequences, 1), outcome)} :
    /\ IF err = ""
       THEN /\ sequences' = Stored(sequences, 1,
                              <<CloseSequenceRow(sequences[1], exit_price, outcome, now)>>)
            /\ signals' = CloseSignals(signals, 1, exit_price, outcome)
       ELSE UNCHANGED <<sequences, signals>>
    /\ lastOp' = Op("close_sequence", err, outcome)
    /\ UNCHANGED <<committed, now, pc, snapshot, manager, is_running>>

\* SignalTracker.track_signal_manual(1, current_price), which calls
\* DatabaseManager.update_signal_price for the sequence's first signal and lets
\* its exception through
TrackSignalManual(current_price) ==
    \E err \in {IF signals = <<>> THEN ""
                 ELSE UpdateSignalPriceError(signals[1], current_price)} :
    \E outcome \in {IF signals = <<>> \/ err # "" THEN ""
                     ELSE CheckSignalOutcome(signals[1], current_price, now)} :
        /\ outcome # "" => Len(signals[1].result) < MaxResults
        /\ signals' = IF signals = <<>> THEN signals
                       ELSE [signals EXCEPT ![1] = UpdateSignalPriceRow(signals[1], current_price, now)]
        /\ lastOp' = Op("update_signal_price", err, outcome)
        /\ UNCHANGED <<sequences, committed, now, pc, snapshot, manager, is_running>>

\* mutant: the loop does not test is_running
WhileIsRunning_Always(running) == TRUE

\* SignalTracker.start_tracking, line 33: "while self.is_running" lets a tick start
WhileIsRunning(running) == running

\* SignalTracker.start_tracking, lines 28-31: the coroutine starts (the task of
\* main.py, or a later call after the loop has ended) and sets is_running
StartTracking ==
    /\ pc = "off"
    /\ is_running' = TRUE
    /\ pc' = "idle"
    /\ lastOp' = Op("start_tracking", "", "")
    /\ UNCHANGED <<sequences, signals, committed, now, snapshot, manager>>

\* SignalTracker.stop_tracking
StopTracking ==
    /\ is_running' = FALSE
    /\ lastOp' = Op("stop_tracking", "", "")
    /\ UNCHANGED <<sequences, signals, committed, now, pc, snapshot, manager>>

\* get_active_sequences: the ACTIVE rows in id order, each detached with the
\* signals that carry its id; "after" lists how the items before it in the for
\* loop of the tick ended
ActiveSequences(table, sigs) ==
    SelectSeq([ i \in DOMAIN table |->
                  [ id |-> i,
                    seq |-> table[i],
                    signals |-> SelectSeq(sigs, LAMBDA sig : sig.sequence_id = i),
                    after |-> <<>> ] ],
              LAMBDA item : item.seq.status = "ACTIVE")

\* SignalTracker.start_tracking, lines 33-35, _check_all_active_signals and
\* _check_sequences_for_martingale, line 107: a tick starts. Every signal carries
\* a sequence_id, so _check_individual_signals finds no standalone signal and
\* returns (lines 58-61); then the tick calls get_active_sequences()
TickFetch ==
    /\ pc = "idle"
    /\ WhileIsRunning(is_running)
    /\ LET active == ActiveSequences(sequences, signals)
       IN  /\ snapshot' = active
           /\ pc' = IF active = <<>> THEN "idle" ELSE "fetched"
    /\ lastOp' = Op("tick_fetch", "", "")
    /\ UNCHANGED <<sequences, signals, committed, now, manager, is_running>>

\* SignalTracker.start_tracking, line 33: the loop finds is_running False and the
\* coroutine returns
TrackingEnds ==
    /\ pc = "idle"
    /\ ~WhileIsRunning(is_running)
    /\ pc' = "off"
    /\ lastOp' = Op("tracking_ends", "", "")
    /\ UNCHANGED <<sequences, signals, committed, now, snapshot, manager, is_running>>

\* mutant: the stamp also counts the proposal as a step
UpdateSuggestionTime_CountsStep(table, t) ==
    IF table = <<>> THEN table
    ELSE << [ table[1] EXCEPT !.last_martingale_suggestion_at = At(t),
                              !.current_step = table[1].current_step + 1 ] >>

\* update_sequence_martingale_suggestion_time: the table after the stamp
UpdateSuggestionTime(table, t) ==
    IF table = <<>> THEN table
    ELSE << [ table[1] EXCEPT !.last_martingale_suggestion_at = At(t) ] >>

\* mutant: an item that failed ends the for loop
AfterItem_AbortOnError(failure) == IF failure = "" THEN "next item" ELSE "return"

\* SignalTracker._check_sequences_for_martingale, lines 113-160: where control
\* goes when the body of the for loop has ended for an item with the given
\* failure ("" for none). The body is one try statement inside the loop: the
\* "continue" of line 119, the except clause of line 159, which catches what
\* get_ticker_price and close_sequence raise, and the end of the body (the
\* senders catch their own exceptions) all lead to the loop's next iteration
AfterItem(failure) == "next item"

\* the fetched sequences the for loop still has to go through when the first of
\* them has ended with the given failure
RestOfLoop(items, failure) ==
    IF AfterItem(failure) = "next item"
    THEN [ i \in 1..(Len(items) - 1) |->
             [ items[i + 1] EXCEPT !.after = Append(items[i + 1].after, failure) ] ]
    ELSE <<>>

\* what a tick did with a fetched sequence (item: its id, after: how the items
\* before it ended), and what its loop did afterwards
TickOp(item, name, err, outcome, failure) ==
    [ op |-> name, err |-> err, outcome |-> outcome, then |-> AfterItem(failure),
      item |-> item.id, after |-> item.after ]

\* SignalTracker._check_sequences_for_martingale, lines 113-160: one iteration of
\* the for loop, for the first fetched sequence the tick has not gone through,
\* given what get_ticker_price does (a price, None: no ticker, FetchRaises) and
\* whether Telegram delivers the notification. The writes go to the stored row
\* with the item's id. _check_all_active_signals returns after the last item.
TickProcess(ticker, delivered) ==
    /\ pc = "fetched"
    /\ \E item \in {snapshot[1]} :
       \E outcome \in {IF ticker # None /\ ticker # FetchRaises
                        THEN CheckSequenceClose(item.seq, ticker) ELSE ""} :
       \E suggests \in {/\ ticker # None /\ ticker # FetchRaises /\ outcome = ""
                         /\ ShouldAddMartingale(item.seq, ticker, now)} :
       \E closeErr \in {CloseSequenceError(RowOf(sequences, item.id), outcome)},
          sendErr \in {IF delivered THEN "" ELSE "send failed"} :
       \E failure \in {IF ticker = None THEN "no ticker"
                        ELSE IF ticker = FetchRaises THEN "ticker error"
                        ELSE IF outcome # "" THEN closeErr
                        ELSE IF suggests THEN sendErr
                        ELSE ""} :
           /\ IF ticker = None
              THEN /\ UNCHANGED <<sequences, signals>>
                   /\ lastOp' = TickOp(item, "tick_no_ticker", "", "", failure)
              ELSE IF ticker = FetchRaises
              THEN /\ UNCHANGED <<sequences, signals>>
                   /\ lastOp' = TickOp(item, "tick_error", "ticker error", "", failure)
              ELSE IF outcome # ""
              THEN /\ IF closeErr = ""
                      THEN /\ sequences' =
                                Stored(sequences, item.id,
                                       <<CloseSequenceRow(sequences[item.id], ticker, outcome, now)>>)
                           /\ signals' = CloseSignals(signals, item.id, ticker, outcome)
                      ELSE UNCHANGED <<sequences, signals>>
                   /\ lastOp' = TickOp(item, "tick_close", closeErr, outcome, failure)
              ELSE IF suggests
              THEN /\ sequences' =
                        Stored(sequences, item.id,
                               UpdateSuggestionTime(RowOf(sequences, item.id), now))
                   /\ UNCHANGED signals
                   /\ lastOp' = TickOp(item, "tick_suggest", sendErr, "", failure)
              ELSE /\ UNCHANGED <<sequences, signals>>
                   /\ lastOp' = TickOp(item, "tick_checked", "", "", failure)
           /\ \E rest \in {RestOfLoop(snapshot, failure)} :
                 /\ snapshot' = rest
                 /\ pc' = IF rest = <<>> THEN "idle" ELSE "fetched"
    /\ UNCHANGED <<committed, now, manager, is_running>>

\* the clock moves on between two polls (start_tracking sleeps 60 s after each
\* tick; a tick itself takes no modelled time)
PassTime ==
    /\ pc # "fetched"
    /\ now + TimeJump <= MaxNow
    /\ now' = now + TimeJump
    /\ lastOp' = Op("time", "", "")
    /\ UNCHANGED <<sequences, signals, committed, pc, snapshot, manager, is_running>>

\* what get_ticker_price and Telegram may do during a tick
TickInputs == (TickerPrices \cup {None, FetchRaises}) \X BOOLEAN

Next ==
    \/ \E s \in ProducerInputs : MonitorMarkets(s[1], s[2], s[3])
    \/ \E a \in AdvanceInputs : AddMartingale(a[1], a[2], a[3])
    \/ \E x \in ManualExitPrices, o \in ManualOutcomes : CloseSequence(x, o)
    \/ StartTracking
    \/ TickFetch
    \/ \E i \in TickInputs : TickProcess(i[1], i[2])
    \/ TrackingEnds
    \/ PassTime
    \/ StopTracking

Spec == Init /\ [][Next]_vars

\* the polling ticks, the sequence closes and the manual price update, which
\* main.py never calls (track_signal_manual: "Manually update a signal (for
\* testing)"), while nobody advances a sequence
NextWithManualUpdates ==
    \/ \E s \in ProducerInputs : MonitorMarkets(s[1], s[2], s[3])
    \/ \E x \in ManualExitPrices, o \in ManualOutcomes : CloseSequence(x, o)
    \/ StartTracking
    \/ TickFetch
    \/ \E i \in TickInputs : TickProcess(i[1], i[2])
    \/ TrackingEnds
    \/ PassTime
    \/ StopTracking
    \/ \E p \in UpdatePrices : TrackSignalManual(p)

SignalSpec == Init /\ [][NextWithManualUpdates]_vars

\* the scan of several symbols and the polling ticks of a tracker that is not
\* stopped: a tick fetches up to MaxSymbols sequences
NextWithSeveralSymbols ==
    \/ \E n \in 1..MaxSymbols, s \in ProducerInputs : MonitorSymbol(n, s[1], s[2], s[3])
    \/ StartTracking
    \/ TickFetch
    \/ \E i \in TickInputs : TickProcess(i[1], i[2])

TickLoopSpec == Init /\ [][NextWithSeveralSymbols]_vars

\* start_tracking keeps polling: each tick is eventually fetched and processed
FairSpec ==
    /\ Spec
    /\ WF_vars(TickFetch)
    /\ WF_vars(\E i \in TickInputs : TickProcess(i[1], i[2]))

----------------------------------------------------------------------------
(* Properties *)

Exists == sequences # <<>>
S == sequences[1]

RECURSIVE SumValue(_, _)
\* sum of price x margin over the first n of a list of <<price, margin>>
SumValue(es, n) ==
    IF n = 0 THEN Zero
    ELSE RAdd(SumValue(es, n - 1), RMul(es[n][1], es[n][2]))

RECURSIVE SumMargin(_, _)
\* sum of the margins of the first n of a list of <<price, margin>>
SumMargin(es, n) ==
    IF n = 0 THEN Zero ELSE RAdd(SumMargin(es, n - 1), es[n][2])

\* margin of a bot_signals row
SignalMargin(sig) ==
    IF Truthy(sig.actual_margin) THEN sig.actual_margin ELSE sig.recommended_margin

RECURSIVE SumSignalMargin(_, _)
\* sum of the margins of the first n of a list of bot_signals rows
SumSignalMargin(sigs, n) ==
    IF n = 0 THEN Zero
    ELSE RAdd(SumSignalMargin(sigs, n - 1), SignalMargin(sigs[n]))

\* the terminal status the specification attaches to an exit outcome
ClosedStatusOf(outcome) ==
    CASE outcome = "HIT_TP1" -> "CLOSED_TP1"
      [] outcome = "HIT_TP2" -> "CLOSED_TP2"
      [] outcome = "HIT_SL" -> "CLOSED_SL"
      [] OTHER -> outcome

\* C1: when the tick's exit evaluation of a stored ACTIVE sequence reports
\* HIT_TP1, HIT_TP2 or HIT_SL, the tick leaves the stored sequence in the
\* matching CLOSED_* status with closed_at and final_exit_price set.
C1_TickExitCloses ==
    [][ ( /\ pc = "fetched" /\ pc' # "fetched"
          /\ S.status = "ACTIVE"
          /\ lastOp'.op = "tick_close" )
        => ( /\ S'.status = ClosedStatusOf(lastOp'.outcome)
             /\ S'.closed_at # NoTime
             /\ S'.final_exit_price # None ) ]_vars

\* sum(price x margin) / sum(margin) over a list of <<price, margin>>
WeightedMean(es) == RDiv(SumValue(es, Len(es)), SumMargin(es, Len(es)))

\* the lists of entries create and at most n advances can commit
RECURSIVE EntryListsAfter(_)
EntryListsAfter(n) ==
    IF n = 0 THEN { << <<r.first_entry_price, r.total_margin>> >> : r \in CreatedRows }
    ELSE EntryListsAfter(n - 1)
         \cup { Append(es, <<a[1], a[2]>>) : es \in EntryListsAfter(n - 1), a \in AdvanceInputs }

\* the weighted mean of each of them, computed once
MeanTable == [ es \in EntryListsAfter(StepCap - 1) |-> WeightedMean(es) ]

\* C2: the stored weighted_avg_entry equals sum(price x margin) / sum(margin)
\* over the entries committed by create and by every successful advance.
C2_WeightedAvgIsMarginWeightedMean ==
    Exists => S.weighted_avg_entry = Cached(MeanTable, committed, WeightedMean(committed))

\* C2 witness: three committed entries with positive margins and an average
\* that is neither the first nor the last entry price
C2_Witness ==
    /\ Exists
    /\ Len(committed) = 3
    /\ \A i \in 1..3 : RLt(Zero, committed[i][2])
    /\ S.weighted_avg_entry # S.first_entry_price
    /\ S.weighted_avg_entry # S.last_entry_price

\* C3: current_step never exceeds max_steps.
C3_StepWithinMax ==
    Exists => S.current_step <= S.max_steps

\* C4: once the status is not ACTIVE, no step changes the sequence or its entries.
C4_TerminalAbsorbing ==
    [][ (Exists /\ S.status # "ACTIVE") => (sequences' = sequences /\ signals' = signals) ]_vars

\* C5: close_sequence on a sequence that is not ACTIVE ends with an error and
\* leaves the close fields of the sequence and its entries unchanged.
C5_CloseOfClosedRejected ==
    [][ (Exists /\ S.status # "ACTIVE" /\ lastOp'.op = "close_sequence")
        => ( /\ lastOp'.err # ""
             /\ S'.status = S.status
             /\ S'.closed_at = S.closed_at
             /\ S'.final_exit_price = S.final_exit_price
             /\ S'.total_pnl = S.total_pnl
             /\ S'.total_pnl_pct = S.total_pnl_pct
             /\ signals' = signals ) ]_vars

\* C6: add_martingale_to_sequence on a sequence that is not ACTIVE raises and
\* leaves step, last entry price, average, total margin and TP levels unchanged.
C6_AdvanceOfClosedRejected ==
    [][ (Exists /\ S.status # "ACTIVE" /\ lastOp'.op = "add_martingale")
        => ( /\ lastOp'.err = "ValueError: not active"
             /\ S'.current_step = S.current_step
             /\ S'.last_entry_price = S.last_entry_price
             /\ S'.weighted_avg_entry = S.weighted_avg_entry
             /\ S'.total_margin = S.total_margin
             /\ S'.current_tp1 = S.current_tp1
             /\ S'.current_tp2 = S.current_tp2 ) ]_vars

\* C6 witness: an advance has just been refused on a closed sequence
C6_Witness ==
    /\ Exists
    /\ S.status # "ACTIVE"
    /\ lastOp.op = "add_martingale"
    /\ lastOp.err = "ValueError: not active"

\* C7: current_step equals the number of bot_signals rows of the sequence
\* (stated for a sequence whose first entry has been recorded).
C7_StepEqualsEntryCount ==
    (Exists /\ signals # <<>>) => S.current_step = Len(signals)

\* C8: total_margin equals the sum of the margins of the sequence's bot_signals
\* rows (stated for a sequence whose first entry has been recorded).
C8_TotalMarginIsSumOfEntries ==
    (Exists /\ signals # <<>>) => S.total_margin = SumSignalMargin(signals, Len(signals))

\* the offsets of the specification: 1 - pct/100 and 1 + pct/100
BelowByTp1 == RSub(One, Rat(Tp1Percent, 100))
BelowByTp2 == RSub(One, Rat(Tp2Percent, 100))
AboveByTp1 == RAdd(One, Rat(Tp1Percent, 100))
AboveByTp2 == RAdd(One, Rat(Tp2Percent, 100))

\* <<tp1, tp2>> of an average as the specification states them:
\* avg x (1 - pct/100) for SHORT and avg x (1 + pct/100) for LONG
OffsetsOf(direction, avg) ==
    IF direction = "SHORT"
    THEN <<RMul(avg, BelowByTp1), RMul(avg, BelowByTp2)>>
    ELSE <<RMul(avg, AboveByTp1), RMul(avg, AboveByTp2)>>

\* ... of the average of each position of the model, computed once
OffsetsTable ==
    [ k \in { <<q.direction, q.weighted_avg_entry>> : q \in Positions }
        |-> OffsetsOf(k[1], k[2]) ]

\* the levels are the offsets tps of the average, in the order of the direction
LevelsAre(seq, tps) ==
    /\ seq.current_tp1 = tps[1]
    /\ seq.current_tp2 = tps[2]
    /\ IF seq.direction = "SHORT"
       THEN RLt(seq.current_tp2, seq.current_tp1)
            /\ RLt(seq.current_tp1, seq.weighted_avg_entry)
       ELSE RLt(seq.weighted_avg_entry, seq.current_tp1)
            /\ RLt(seq.current_tp1, seq.current_tp2)

\* C9: once an advance has been committed, current_tp1 / current_tp2 are
\* avg x (1 - pct/100) for SHORT and avg x (1 + pct/100) for LONG of the current
\* weighted_avg_entry with pct = 10 / 15, ordered tp2 < tp1 < avg for SHORT and
\* avg < tp1 < tp2 for LONG.
C9_TpsFollowWeightedAvg ==
    (Exists /\ S.current_step > 1) =>
        LevelsAre(S, Cached(OffsetsTable, <<S.direction, S.weighted_avg_entry>>,
                            OffsetsOf(S.direction, S.weighted_avg_entry)))

\* C9 witness: a SHORT sequence after two advances whose average moved both times
C9_Witness ==
    /\ Exists
    /\ S.direction = "SHORT"
    /\ S.current_step = 3
    /\ Len(committed) = 3
    /\ \A i \in 2..3 : RLt(Zero, committed[i][2])
    /\ S.weighted_avg_entry # S.first_entry_price

\* the decision table of the exit evaluator as the specification states it
ExitTable(seq, price) ==
    IF seq.direction = "SHORT"
    THEN CASE RLe(price, seq.current_tp2) -> "HIT_TP2"
           [] ~RLe(price, seq.current_tp2) /\ RLe(price, seq.current_tp1) -> "HIT_TP1"
           [] ~RLe(price, seq.current_tp1) /\ seq.current_sl # None
                 /\ RLe(seq.current_sl, price) -> "HIT_SL"
           [] OTHER -> ""
    ELSE CASE RLe(seq.current_tp2, price) -> "HIT_TP2"
           [] ~RLe(seq.current_tp2, price) /\ RLe(seq.current_tp1, price) -> "HIT_TP1"
           [] ~RLe(seq.current_tp1, price) /\ seq.current_sl # None
                 /\ RLe(price, seq.current_sl) -> "HIT_SL"
           [] OTHER -> ""

\* C10: for an ACTIVE sequence and every ticker price, check_sequence_close
\* returns what the decision table says (TP2 before TP1 before SL, no HIT_SL
\* without a stop level).
C10_ExitEvaluatorMatchesTable ==
    (Exists /\ S.status = "ACTIVE") =>
        \A p \in TickerPrices : CheckSequenceClose(S, p) = ExitTable(S, p)

\* C10 witness: ACTIVE sequences for which the ticker prices reach every row of
\* the table: here a SHORT one with a stop level where TP2, TP1 and SL all occur
C10_Witness ==
    /\ Exists
    /\ S.status = "ACTIVE"
    /\ S.direction = "SHORT"
    /\ S.current_sl # None
    /\ \E p \in TickerPrices : CheckSequenceClose(S, p) = "HIT_TP2"
    /\ \E p \in TickerPrices : CheckSequenceClose(S, p) = "HIT_TP1"
    /\ \E p \in TickerPrices : CheckSequenceClose(S, p) = "HIT_SL"

\* C11: for a stored sequence whose status is not ACTIVE, check_sequence_close
\* returns no outcome for every ticker price, also for prices beyond tp2 or sl.
C11_NonActiveNeverExits ==
    (Exists /\ S.status # "ACTIVE") =>
        \A p \in TickerPrices : CheckSequenceClose(S, p) = ""

\* C11 witness: a closed sequence with a stop level for which ticker prices lie
\* beyond tp2 and beyond sl
C11_Witness ==
    /\ Exists
    /\ S.status # "ACTIVE"
    /\ S.current_sl # None
    /\ \E p \in TickerPrices : ExitTable(S, p) = "HIT_TP2"
    /\ \E p \in TickerPrices : ExitTable(S, p) = "HIT_SL"

\* the stored sequence carries a suggestion stamp younger than the cooldown
InCooldown ==
    /\ Exists
    /\ S.last_martingale_suggestion_at # NoTime
    /\ now - S.last_martingale_suggestion_at[1] < CooldownMinutes

\* C12: while the stamp of the last proposal is younger than cooldown_minutes,
\* should_add_martingale returns False for every price, and no polling tick
\* issues a proposal for the sequence.
C12_CooldownBetweenProposals ==
    /\ [](InCooldown => \A p \in TickerPrices : ~ShouldAddMartingale(S, p, now))
    /\ [][ InCooldown => lastOp'.op # "tick_suggest" ]_vars

\* C12 witness: a tick has evaluated an ACTIVE sequence below the step cap
\* inside the cooldown at a time when some ticker price meets the trigger
\* threshold without being an exit
C12_Witness ==
    /\ InCooldown
    /\ S.status = "ACTIVE"
    /\ S.current_step < MartingaleMaxSteps
    /\ lastOp.op = "tick_checked"
    /\ \E p \in TickerPrices :
          /\ CheckSequenceClose(S, p) = ""
          /\ ~RLt(CalculatePriceMovePct(S.last_entry_price, p, S.direction),
                  ManagerTriggerPercent)

\* C13: should_add_martingale returns False whenever the sequence's
\* current_step has reached the sequence's own max_steps, for every price and
\* every manager configuration.
C13_NoTriggerAtOwnStepCap ==
    (Exists /\ S.current_step >= S.max_steps) =>
        \A p \in TickerPrices : ~ShouldAddMartingale(S, p, now)

\* the adverse move of a price from last_entry_price as the specification
\* states it, (current - last)/last x 100 for SHORT and (last - current)/last x 100
\* for LONG, compared with the trigger percent
AdverseMoveReachesTrigger(seq, price) ==
    IF seq.direction = "SHORT"
    THEN RLe(ManagerTriggerPercent,
             RMul(RDiv(RSub(price, seq.last_entry_price), seq.last_entry_price), Hundred))
    ELSE RLe(ManagerTriggerPercent,
             RMul(RDiv(RSub(seq.last_entry_price, price), seq.last_entry_price), Hundred))

\* C14: for an ACTIVE sequence below its own max_steps and outside cooldown,
\* should_add_martingale returns True exactly when the adverse move from
\* last_entry_price is >= the trigger percent (equality triggers, a
\* favourable move never does).
C14_TriggerIffAdverseMove ==
    (Exists /\ S.status = "ACTIVE" /\ S.current_step < S.max_steps /\ ~InCooldown) =>
        \A p \in TickerPrices :
            ShouldAddMartingale(S, p, now) <=> AdverseMoveReachesTrigger(S, p)

\* C15: the margin suggested for the next entry is the margin of the last
\* committed entry (the first entry, or the one of the most recent advance)
\* times step1_multiplier at step 1 and times step2_plus_multiplier at step >= 2.
C15_NextMarginFromLastCommittedEntry ==
    (Exists /\ S.status = "ACTIVE") =>
        CalculateNextMargin(S, signals) =
            Round2(RMul(committed[Len(committed)][2],
                        IF S.current_step = 1 THEN Step1Multiplier
                        ELSE Step2PlusMultiplier))

\* (avg - exit)/avg x 100 for SHORT and (exit - avg)/avg x 100 for LONG
PnlPctOf(direction, avg, exit) ==
    IF direction = "SHORT"
    THEN RMul(RDiv(RSub(avg, exit), avg), Hundred)
    ELSE RMul(RDiv(RSub(exit, avg), avg), Hundred)

\* total_margin x leverage x pnl_pct / 100, with the default leverage for none
TotalPnlOf(seq, pnl_pct) ==
    RMul(RMul(seq.total_margin,
              IF Truthy(seq.total_leverage) THEN seq.total_leverage
              ELSE DefaultLeverageValue),
         RDiv(pnl_pct, Hundred))

\* <<total_pnl_pct, total_pnl>> of a position left at exit
ExpectedPnl(seq, exit) ==
    <<PnlPctOf(seq.direction, seq.weighted_avg_entry, exit),
      TotalPnlOf(seq, PnlPctOf(seq.direction, seq.weighted_avg_entry, exit))>>

\* ... of each position of the model at each exit price, computed once
ExpectedPnlTable ==
    [ k \in { <<q, x>> : q \in Positions, x \in ExitPrices } |-> ExpectedPnl(k[1], k[2]) ]

\* C16: a closed sequence's total_pnl_pct is (avg - exit)/avg x 100 for SHORT and
\* (exit - avg)/avg x 100 for LONG, with avg the weighted_avg_entry held at
\* close, and its total_pnl is total_margin x leverage x total_pnl_pct / 100.
C16_ClosePnlFromWeightedAvg ==
    (Exists /\ S.final_exit_price # None) =>
        <<S.total_pnl_pct, S.total_pnl>> =
            Cached(ExpectedPnlTable, <<Position(S), S.final_exit_price>>,
                   ExpectedPnl(S, S.final_exit_price))

\* C16 witness: a sequence closed after two advances, whose average differs
\* from its first entry price and whose PnL is not zero
C16_Witness ==
    /\ Exists
    /\ S.status # "ACTIVE"
    /\ S.final_exit_price # None
    /\ S.current_step = 3
    /\ S.weighted_avg_entry # S.first_entry_price
    /\ ~RIsZero(S.total_pnl)

\* the timeout of the specification on the modelled clock: one clock jump
SequenceTimeoutMinutes == TimeJump

\* C17: a polling tick that evaluates a stored sequence which has been ACTIVE
\* longer than the timeout leaves it EXPIRED (stated for the ticks that got a
\* ticker price and found neither an exit nor a trigger).
C17_TickExpiresOldSequence ==
    [][ ( /\ pc = "fetched" /\ pc' # "fetched"
          /\ Exists
          /\ S.status = "ACTIVE"
          /\ now - S.opened_at[1] > SequenceTimeoutMinutes
          /\ lastOp'.op = "tick_checked" )
        => S'.status = "EXPIRED" ]_vars

\* C18: once a tick has detected an exit for the sequence, the sequence
\* eventually has a terminal status, also when the close write of that tick
\* failed (unless the tracker is stopped first).
C18_DetectedExitEventuallyTerminal ==
    (Exists /\ lastOp.op = "tick_close")
    ~> ((Exists /\ S.status # "ACTIVE") \/ ~is_running)

\* the operations a tick records for the tracked sequence
TickOps == {"tick_no_ticker", "tick_error", "tick_close", "tick_suggest", "tick_checked"}

C20_NonPositiveMarginRejected ==
    [][ \A a \in AdvanceInputs :
          (Exists /\ RLe(a[2], Zero) /\ AddMartingale(a[1], a[2], a[3]))
          => ( /\ lastOp'.err # ""
               /\ S'.current_step = S.current_step
               /\ S'.weighted_avg_entry = S.weighted_avg_entry
               /\ S'.total_margin = S.total_margin
               /\ S'.current_tp1 = S.current_tp1
               /\ S'.current_tp2 = S.current_tp2 ) ]_vars

\* C21: every write a tick makes to the stored sequence is the decision the
\* evaluators give on the stored sequence at the time of the write: a tick stamps
\* a proposal only if the stored sequence has no exit and triggers at the ticker
\* price, and closes only with the outcome the stored sequence has at that price.
C21_TickWritesDecidedOnStoredState ==
    [][ \A t \in TickerPrices, d \in BOOLEAN :
          (pc = "fetched" /\ TickProcess(t, d) /\ sequences' # sequences)
          => IF lastOp'.op = "tick_suggest"
             THEN CheckSequenceClose(S, t) = "" /\ ShouldAddMartingale(S, t, now)
             ELSE CheckSequenceClose(S, t) = lastOp'.outcome ]_vars

\* the start_tracking coroutine is in its loop
Tracking == pc # "off"

\* C22: a tick in progress when stop_tracking is called still goes through its
\* fetched items; once is_running is False inside the loop it stays False, no
\* tick starts, and between ticks the loop can only end.
C22_StopTakesEffectBetweenTicks ==
    /\ [][ (Tracking /\ ~is_running) =>
              /\ ~is_running'
              /\ lastOp'.op # "tick_fetch"
              /\ (lastOp'.op \in TickOps) => (pc = "fetched" /\ lastOp'.then = "next item") ]_vars
    /\ []( (pc = "idle" /\ ~is_running) => (ENABLED TrackingEnds /\ ~ENABLED TickFetch) )

\* C22 witness: stop_tracking was called between a tick's fetch and its
\* processing of the tracked sequence, and the tick has processed it
C22_Witness ==
    /\ ~is_running
    /\ pc = "idle"
    /\ lastOp.op = "tick_suggest"
    /\ lastOp.then = "next item"

\* x lies strictly between a and b
StrictlyBetween(x, a, b) ==
    \/ RLt(a, x) /\ RLt(x, b)
    \/ RLt(b, x) /\ RLt(x, a)

\* the entry <<price, margin>> the step has committed
NewEntry == committed'[Len(committed')]

\* C23: an advance that commits a positive margin at a price other than the
\* weighted average of a sequence with positive total margin stores a weighted
\* average strictly between the previous average and the new entry price.
C23_NewAverageStrictlyBetween ==
    [][ ( /\ lastOp'.op = "add_martingale"
          /\ lastOp'.err = ""
          /\ Len(committed') = Len(committed) + 1
          /\ RLt(Zero, S.total_margin)
          /\ RLt(Zero, NewEntry[2])
          /\ NewEntry[1] # S.weighted_avg_entry )
        => StrictlyBetween(S'.weighted_avg_entry, S.weighted_avg_entry, NewEntry[1]) ]_vars

\* C23 witness: a SHORT sequence advanced twice at rising prices off its average;
\* the stored average is above the first entry and below the last one
C23_Witness ==
    /\ Exists
    /\ lastOp.op = "add_martingale" /\ lastOp.err = ""
    /\ S.direction = "SHORT"
    /\ S.current_step = 3
    /\ RLt(S.first_entry_price, S.weighted_avg_entry)
    /\ RLt(S.weighted_avg_entry, S.last_entry_price)

\* C24: a tick that issues a trigger proposal leaves the signals alone and changes
\* no column of the stored sequence other than last_martingale_suggestion_at.
C24_ProposalChangesOnlySuggestionTime ==
    [][ (pc = "fetched" /\ lastOp'.op = "tick_suggest")
        => /\ signals' = signals
           /\ sequences' = << [ S EXCEPT !.last_martingale_suggestion_at =
                                            S'.last_martingale_suggestion_at ] >> ]_vars

\* C24 witness: a tick has just issued a proposal for an advanced sequence and
\* stamped it
C24_Witness ==
    /\ lastOp.op = "tick_suggest"
    /\ lastOp.err = ""
    /\ S.last_martingale_suggestion_at = At(now)
    /\ S.current_step = 2
    /\ S.status = "ACTIVE"

\* the sequence as it would be had the last proposal left no stamp
Unstamped(seq) == [ seq EXCEPT !.last_martingale_suggestion_at = NoTime ]

\* C25: after a tick whose proposal could not be delivered, the tick one minute
\* later proposes again at every price at which no exit is detected and the
\* trigger condition holds for the stored sequence: the failed delivery does not
\* count for the cooldown.
C25_FailedDeliveryRetriedNextTick ==
    (lastOp.op = "tick_suggest" /\ lastOp.err = "send failed")
    => \A p \in TickerPrices :
          ( /\ CheckSequenceClose(S, p) = ""
            /\ ShouldAddMartingale(Unstamped(S), p, now + 1) )
          => ShouldAddMartingale(S, p, now + 1)

\* C26: a close that commits leaves no signal of the sequence ACTIVE; every signal
\* that was ACTIVE is CLOSED and has one result, with the outcome of the close
\* and the PnL percent of that signal's own entry price against the exit price.
C26_CloseClosesEveryOpenEntry ==
    [][ (lastOp'.op \in {"close_sequence", "tick_close"} /\ lastOp'.err = "")
        => \A i \in DOMAIN signals :
              /\ signals'[i].status # "ACTIVE"
              /\ signals[i].status = "ACTIVE"
                 => /\ signals'[i].status = "CLOSED"
                    /\ Len(signals'[i].result) = 1
                    /\ signals'[i].result[1].outcome = lastOp'.outcome
                    /\ S'.status = lastOp'.outcome
                    /\ signals'[i].result[1].theoretical_pnl_pct =
                          PnlPctOf(signals[i].direction, signals[i].entry_price,
                                   S'.final_exit_price) ]_vars

\* C26 witness: an advanced SHORT sequence has been closed; its signal is CLOSED
\* with one result whose PnL percent differs from the sequence's
C26_Witness ==
    /\ lastOp.op = "close_sequence" /\ lastOp.err = ""
    /\ S.direction = "SHORT"
    /\ S.current_step > 1
    /\ signals # <<>>
    /\ signals[1].status = "CLOSED"
    /\ Len(signals[1].result) = 1
    /\ signals[1].result[1].theoretical_pnl_pct # S.total_pnl_pct

\* the stored sequence's projection by sg agrees with the row adv
ProjectionEqualsRow(sg, adv) ==
    /\ adv.weighted_avg_entry = sg.new_weighted_avg
    /\ adv.total_margin = sg.new_total_margin
    /\ adv.current_tp1 = sg.new_tp1
    /\ adv.current_tp2 = sg.new_tp2
    /\ adv.current_step = sg.next_step

\* C27: for the manager's max_steps and every tp1_percent / tp2_percent the
\* evaluator can be constructed with, the suggestion it returns for the stored
\* sequence projects the values add_martingale_to_sequence stores when it is
\* called with the suggested entry price and margin.
C27_ProposalEqualsAdvance ==
    Exists =>
      \A tp \in TpPercentArgs, p \in TickerPrices :
         LET mgr == [ manager EXCEPT !.tp1_percent = tp[1], !.tp2_percent = tp[2] ]
             sg == Suggestion(mgr, S, signals, p)
         IN  ( /\ ShouldAddMartingale(S, p, now)
               /\ AddMartingaleError(sequences, sg.suggested_margin) = "" )
             => ProjectionEqualsRow(sg, AddMartingaleRow(S, sg.suggested_entry,
                                                         sg.suggested_margin, None))

\* the trigger move of the specification: 1 + trigger_percent/100 and its mirror
AboveByTrigger == RAdd(One, Rat(TriggerPercent, 100))
BelowByTrigger == RSub(One, Rat(TriggerPercent, 100))

\* the stop-loss of seq is set and lies no further from its last entry than the
\* trigger move
SlWithinTrigger(seq) ==
    /\ Truthy(seq.current_sl)
    /\ IF seq.direction = "SHORT"
       THEN RLe(seq.current_sl, RMul(seq.last_entry_price, AboveByTrigger))
       ELSE RGe(seq.current_sl, RMul(seq.last_entry_price, BelowByTrigger))

\* C28: a tick that detects an exit for the sequence it fetched issues no trigger
\* proposal for it, and no tick issues a trigger proposal for a stored sequence
\* whose stop-loss is set and within the trigger move of its last entry.
C28_NoProposalWhenExitDetected ==
    [][ /\ \A t \in TickerPrices, d \in BOOLEAN :
              ( /\ pc = "fetched"
                /\ TickProcess(t, d)
                /\ CheckSequenceClose(snapshot[1].seq, t) # "" )
              => lastOp'.op # "tick_suggest"
        /\ (pc = "fetched" /\ SlWithinTrigger(S)) => lastOp'.op # "tick_suggest" ]_vars

\* C29: a result that close_sequence recorded with is_win = True has a
\* non-negative PnL percent. (No reachable state has such a result: the outcomes
\* that make is_win True are the ones SequenceStatus[outcome] rejects.)
C29_WinningResultHasNonNegativePnl ==
    \A i \in DOMAIN signals :
       \A k \in DOMAIN signals[i].result :
          signals[i].result[k].is_win
          => RLe(Zero, signals[i].result[k].theoretical_pnl_pct)

\* some signal of the sequence has a result recorded as a win
SomeWinningResult ==
    \E i \in DOMAIN signals :
       \E k \in DOMAIN signals[i].result : signals[i].result[k].is_win

\* C30: no signal has more than one result, and a signal of the sequence goes
\* from ACTIVE to CLOSED only in a step that closes the sequence.
C30_OneResultAndClosedOnlyWithSequence ==
    [][ \A i \in DOMAIN signals :
          /\ Len(signals'[i].result) <= 1
          /\ (signals[i].status = "ACTIVE" /\ signals'[i].status = "CLOSED")
             => /\ lastOp'.op \in {"close_sequence", "tick_close"}
                /\ S'.status # "ACTIVE" ]_vars

====
